---- MODULE Spec2Model ----
(***************************************************************************)
(* RT0-P0 mixed finite element discretization (porepy.numerics.fem.rt0).   *)
(* The discretizer object is stateless: every method is a function of the  *)
(* grid g and the data dictionary.  The state machine draws g and data     *)
(* from bounded sets and applies the methods; the result of the last call  *)
(* is kept in `call` and `ret`.                                            *)
(*                                                                         *)
(* Numbers are exact rationals <<n, d>> (d > 0, lowest terms); array       *)
(* indices are 1-based (numpy index i is i + 1 here).                      *)
(***************************************************************************)
EXTENDS Integers, Sequences, FiniteSets, TLC

VARIABLES g, data, call, ret

vars == <<g, data, call, ret>>

(***************************************************************************)
(* Rational arithmetic (the float64 arithmetic of numpy, without rounding) *)
(***************************************************************************)
Abs(x) == IF x < 0 THEN -x ELSE x

RECURSIVE GCD(_, _)
GCD(a, b) == IF b = 0 THEN a ELSE GCD(b, a % b)

Rat(n, d) ==
    LET s == IF d < 0 THEN -1 ELSE 1
        k == GCD(Abs(n), Abs(d))
    IN  IF n = 0 THEN <<0, 1>> ELSE <<(s * n) \div k, (s * d) \div k>>

Z(n) == <<n, 1>>
R0 == <<0, 1>>
R1 == <<1, 1>>

RAdd(x, y) ==
    IF x[1] = 0 THEN y ELSE IF y[1] = 0 THEN x
    ELSE Rat(x[1] * y[2] + y[1] * x[2], x[2] * y[2])
RNeg(x) == <<-x[1], x[2]>>
RSub(x, y) == RAdd(x, RNeg(y))
RMul(x, y) == IF x[1] = 0 \/ y[1] = 0 THEN R0 ELSE Rat(x[1] * y[1], x[2] * y[2])
RDiv(x, y) == Rat(x[1] * y[2], x[2] * y[1])
RAbs(x) == <<Abs(x[1]), x[2]>>
RLeq(x, y) == x[1] * y[2] <= y[1] * x[2]
RMax(x, y) == IF RLeq(x, y) THEN y ELSE x

RECURSIVE RSum(_)
RSum(s) == IF s = <<>> THEN R0 ELSE RAdd(s[1], RSum(Tail(s)))

RECURSIVE RMaxSeq(_)
RMaxSeq(s) == IF s = <<>> THEN R0 ELSE RMax(s[1], RMaxSeq(Tail(s)))

(***************************************************************************)
(* Dense arrays: a matrix is a sequence of rows                            *)
(***************************************************************************)
\* Arrays are built element by element once, like numpy arrays: the
\* concatenation with the empty sequence makes the element list explicit.
Vec(s) == s \o <<>>
Mat(A) == Vec([i \in DOMAIN A |-> Vec(A[i])])

NRows(A) == Len(A)
NCols(A) == IF A = <<>> THEN 0 ELSE Len(A[1])

Zeros(n, m) == Mat([i \in 1..n |-> [j \in 1..m |-> R0]])
ZeroVec(n) == Vec([i \in 1..n |-> R0])

Transpose(A) == Mat([j \in 1..NCols(A) |-> [i \in 1..NRows(A) |-> A[i][j]]])

Dot(A, B) ==
    Mat([i \in 1..NRows(A) |-> [j \in 1..NCols(B) |->
        RSum([k \in 1..NCols(A) |-> RMul(A[i][k], B[k][j])])]])

MatVec(A, v) ==
    Vec([i \in 1..NRows(A) |-> RSum([k \in 1..Len(v) |-> RMul(A[i][k], v[k])])])

MatAdd(A, B) ==
    Mat([i \in 1..NRows(A) |-> [j \in 1..NCols(A) |-> RAdd(A[i][j], B[i][j])]])

Scale(c, A) == Mat([i \in 1..NRows(A) |-> [j \in 1..NCols(A) |-> RMul(c, A[i][j])]])

Diagflat(v) ==
    Mat([i \in 1..Len(v) |-> [j \in 1..Len(v) |-> IF i = j THEN v[i] ELSE R0]])

\* A with row i and column j removed
Minor(A, i, j) ==
    Mat([r \in 1..(NRows(A) - 1) |-> [c \in 1..(NCols(A) - 1) |->
        A[IF r < i THEN r ELSE r + 1][IF c < j THEN c ELSE c + 1]]])

RECURSIVE Det(_)
Det(A) ==
    IF NRows(A) = 0 THEN R1
    ELSE RSum([j \in 1..NCols(A) |->
            RMul(IF j % 2 = 1 THEN A[1][j] ELSE RNeg(A[1][j]), Det(Minor(A, 1, j)))])

\* np.linalg.inv
Inv(A) ==
    LET dt == Det(A)
    IN  Mat([i \in 1..NRows(A) |-> [j \in 1..NCols(A) |->
            RDiv(IF (i + j) % 2 = 0 THEN Det(Minor(A, j, i)) ELSE RNeg(Det(Minor(A, j, i))), dt)]])

\* scipy.linalg.block_diag(*([A] * n))
BlockDiag(A, n) ==
    LET s == NRows(A)
    IN  Mat([i \in 1..(s * n) |-> [j \in 1..(s * n) |->
            IF (i - 1) \div s = (j - 1) \div s
            THEN A[((i - 1) % s) + 1][((j - 1) % s) + 1] ELSE R0]])

\* scipy.sparse.linalg.norm(A, np.inf): the largest absolute row sum
NormInf(A) == RMaxSeq([i \in 1..NRows(A) |-> RSum([j \in 1..NCols(A) |-> RAbs(A[i][j])])])

\* the elements of a set of integers in increasing order (np.unique, np.where)
RECURSIVE SortedSeq(_)
SortedSeq(S) ==
    IF S = {} THEN <<>>
    ELSE LET m == CHOOSE x \in S : \A y \in S : x <= y
         IN  <<m>> \o SortedSeq(S \ {m})

RECURSIVE Flatten(_)
Flatten(ss) == IF ss = <<>> THEN <<>> ELSE ss[1] \o Flatten(Tail(ss))

(***************************************************************************)
(* Grids.  A grid carries its topology (cell_faces, face_nodes as dense    *)
(* incidence arrays), cell_volumes, face_areas, and its geometry in the    *)
(* local reference frame together with the rotation R and the mask of      *)
(* active dimensions that the geometry mapper reports for it.              *)
(***************************************************************************)
MaxCells == 2

Eye3 == <<<<R1, R0, R0>>, <<R0, R1, R0>>, <<R0, R0, R1>>>>
\* rotations by a quarter turn about the x, y and z axes
RotX == <<<<R1, R0, R0>>, <<R0, R0, Z(-1)>>, <<R0, R1, R0>>>>
RotY == <<<<R0, R0, R1>>, <<R0, R1, R0>>, <<Z(-1), R0, R0>>>>
RotZ == <<<<R0, Z(-1), R0>>, <<R1, R0, R0>>, <<R0, R0, R1>>>>

Masks(d) == {m \in [1..3 -> BOOLEAN] : Cardinality({i \in 1..3 : m[i]}) = d}

\* x-coordinate of node i of a line grid: 0, 1, 3, 6, ... (cells of length 1, 2, 3, ...)
LineX(i) == ((i - 1) * i) \div 2

\* a 0-d grid: one cell, one face, one node
PointGrid ==
    [kind |-> "Grid", dim |-> 0, num_cells |-> 1, num_faces |-> 1, num_nodes |-> 1,
     cell_faces |-> <<<<1>>>>, face_nodes |-> <<<<1>>>>,
     cell_volumes |-> <<R1>>, face_areas |-> <<R1>>,
     c_centers |-> <<>>, f_normals |-> <<>>, f_centers |-> <<>>, node_coords |-> <<>>,
     R |-> Eye3, dimmask |-> [i \in 1..3 |-> TRUE]]

\* a 1-d grid of n cells: cell c lies between faces c (sign -1) and c+1 (sign +1)
LineGrid(n, rot, mask) ==
    [kind |-> "Grid", dim |-> 1, num_cells |-> n, num_faces |-> n + 1, num_nodes |-> n + 1,
     cell_faces |-> [f \in 1..(n + 1) |-> [c \in 1..n |->
                        IF f = c THEN -1 ELSE IF f = c + 1 THEN 1 ELSE 0]],
     face_nodes |-> [nd \in 1..(n + 1) |-> [f \in 1..(n + 1) |-> IF nd = f THEN 1 ELSE 0]],
     cell_volumes |-> [c \in 1..n |-> Z(c)],
     face_areas |-> [f \in 1..(n + 1) |-> R1],
     c_centers |-> <<[c \in 1..n |-> Rat(LineX(c) + LineX(c + 1), 2)]>>,
     f_normals |-> <<[f \in 1..(n + 1) |-> R1]>>,
     f_centers |-> <<[f \in 1..(n + 1) |-> Z(LineX(f))]>>,
     node_coords |-> <<[nd \in 1..(n + 1) |-> Z(LineX(nd))]>>,
     R |-> rot, dimmask |-> mask]

\* a 2-d grid of one triangle with nodes (0,0), (4,0), (0,3);
\* faces {1,2}, {2,3}, {1,3} of lengths 4, 5, 3
TriGrid(rot, mask) ==
    [kind |-> "Grid", dim |-> 2, num_cells |-> 1, num_faces |-> 3, num_nodes |-> 3,
     cell_faces |-> <<<<1>>, <<1>>, <<-1>>>>,
     face_nodes |-> <<<<1, 0, 1>>, <<1, 1, 0>>, <<0, 1, 1>>>>,
     cell_volumes |-> <<Z(6)>>,
     face_areas |-> <<Z(4), Z(5), Z(3)>>,
     c_centers |-> <<<<Rat(4, 3)>>, <<R1>>>>,
     f_normals |-> <<<<R0, Z(3), Z(3)>>, <<Z(-4), Z(4), R0>>>>,
     f_centers |-> <<<<Z(2), Z(2), R0>>, <<R0, Rat(3, 2), Rat(3, 2)>>>>,
     node_coords |-> <<<<R0, Z(4), R0>>, <<R0, R0, Z(3)>>>>,
     R |-> rot, dimmask |-> mask]

\* entities that are not grids (for ndof)
MortarGrid(n) ==
    [PointGrid EXCEPT !.kind = "MortarGrid", !.num_cells = n, !.num_faces = 0]
OtherEntity == [PointGrid EXCEPT !.kind = "Other", !.num_cells = 0, !.num_faces = 0]

(***************************************************************************)
(* Sparse-matrix and index helpers of scipy / numpy used by the methods    *)
(***************************************************************************)
\* sps.find(A): rows, columns and values of the non-zero entries, column by
\* column (the order the per-cell slices of matrix and project_u rely on)
find(A) ==
    LET col(j) == SelectSeq([i \in 1..NRows(A) |-> <<i, j, A[i][j]>>], LAMBDA t : t[3] # 0)
        ent == Flatten([j \in 1..NCols(A) |-> col(j)])
    IN  [rows |-> Vec([k \in 1..Len(ent) |-> ent[k][1]]),
         cols |-> Vec([k \in 1..Len(ent) |-> ent[k][2]]),
         vals |-> Vec([k \in 1..Len(ent) |-> ent[k][3]])]

\* A.indptr of a column-compressed matrix: indptr[j] entries precede column j
indptr(A) ==
    Vec([j \in 1..(NCols(A) + 1) |->
        Cardinality({p \in (1..NRows(A)) \X (1..NCols(A)) : p[2] < j /\ A[p[1]][p[2]] # 0})])

\* np.argsort(s): the positions of s in increasing order of value (ties in order)
RECURSIVE ArgsortFrom(_, _)
ArgsortFrom(s, left) ==
    IF left = {} THEN <<>>
    ELSE LET m == CHOOSE i \in left : \A j \in left :
                      s[i] < s[j] \/ (s[i] = s[j] /\ i <= j)
         IN  <<m>> \o ArgsortFrom(s, left \ {m})
argsort(s) == ArgsortFrom(s, DOMAIN s)

\* s[index] for an index array
Take(s, index) == Vec([k \in 1..Len(index) |-> s[index[k]]])

\* s[lo:hi] with numpy's 0-based, half-open bounds
Slice(s, lo, hi) == Vec([k \in 1..(hi - lo) |-> s[lo + k]])

Range(s) == {s[k] : k \in DOMAIN s}

\* np.unique(s, return_index=True)[1]: first position of every distinct value
unique_index(s) ==
    LET vals == SortedSeq(Range(s))
    IN  Vec([k \in 1..Len(vals) |-> CHOOSE i \in DOMAIN s :
            s[i] = vals[k] /\ \A j \in DOMAIN s : s[j] = vals[k] => i <= j])

\* np.where(mask)[0]
where(mask) == SortedSeq({i \in DOMAIN mask : mask[i]})

\* columns `idx` of a dense array: A[:, idx]
Columns(A, idx) == Mat([i \in 1..NRows(A) |-> Take(A[i], idx)])

(***************************************************************************)
(* RT0.ndof                                                                *)
(***************************************************************************)
\* mutant: no entity check, every entity without faces counts its cells
ndof_unchecked(gr) ==
    IF gr.kind = "Grid" THEN [exc |-> "", val |-> gr.num_cells + gr.num_faces]
    ELSE [exc |-> "", val |-> gr.num_cells]

ndof(gr) ==
    IF gr.kind = "Grid" THEN [exc |-> "", val |-> gr.num_cells + gr.num_faces]
    ELSE IF gr.kind = "MortarGrid" THEN [exc |-> "", val |-> gr.num_cells]
    ELSE [exc |-> "ValueError", val |-> <<>>]

(***************************************************************************)
(* Collaborators outside rt0.py                                            *)
(***************************************************************************)
\* pp.cg.map_grid(g)
map_grid(gr) ==
    [c_centers |-> gr.c_centers, f_normals |-> gr.f_normals, f_centers |-> gr.f_centers,
     R |-> gr.R, dim |-> gr.dimmask, node_coords |-> gr.node_coords]

\* SecondOrderTensor.rotate(R) for the tensor of one cell
rotate(K, R) == Dot(R, Dot(K, Transpose(R)))

\* np.delete(np.delete(K, remove_dim, axis=0), remove_dim, axis=1)
delete_dims(K, mask) ==
    LET keep == where(mask)
    IN  Mat([i \in 1..Len(keep) |-> [j \in 1..Len(keep) |-> K[keep[i]][keep[j]]]])

(***************************************************************************)
(* RT0.opposite_side_node and RT0.massHdiv                                 *)
(***************************************************************************)
opposite_side_node(face_nodes, nodes, faces_loc) ==
    LET ip == indptr(face_nodes)
        fn == Vec([k \in 1..Len(faces_loc) |->
                  Slice(nodes, ip[faces_loc[k]], ip[faces_loc[k] + 1])])
        nodes_loc == SortedSeq(Range(Flatten(fn)))
        opposite_node == Vec([k \in 1..Len(fn) |->
                  SelectSeq(nodes_loc, LAMBDA x : x \notin Range(fn[k]))])
    IN  Flatten(opposite_node)

massHdiv(K, c_volume, coord, sign, dim, HB) ==
    LET inv_K == Scale(RDiv(R1, c_volume), BlockDiag(Inv(K), dim + 1))
        co == Slice(coord, 0, dim)
        \* row j*dim+i of N, column c: coord[i, j] - coord[i, c]
        N == Mat([r \in 1..(dim * (dim + 1)) |-> [c \in 1..(dim + 1) |->
                 RSub(co[((r - 1) % dim) + 1][((r - 1) \div dim) + 1],
                      co[((r - 1) % dim) + 1][c])]])
        C == Diagflat(Vec([k \in 1..Len(sign) |-> Z(sign[k])]))
    IN  Dot(Transpose(C), Dot(Transpose(N), Dot(HB, Dot(inv_K, Dot(N, C)))))

\* the reference matrix HB built at lines 160-165
HBmatrix(dim) ==
    LET size_HB == dim * (dim + 1)
        its == {it \in 0..(size_HB - 1) : it % dim = 0}
        up == Mat([i \in 1..size_HB |-> [j \in 1..size_HB |->
                  Z(Cardinality({it \in its : j - i = it}))]])
    IN  Scale(Rat(1, dim * dim * (dim + 1) * (dim + 2)), MatAdd(up, Transpose(up)))

(***************************************************************************)
(* RT0.matrix                                                              *)
(***************************************************************************)
\* the permeability after lines 141-148: rotated to the local frame and reduced
\* to the active dimensions unless data declares it tangential
local_perm(gr, d) ==
    IF ~d.is_tangential /\ gr.dim < 3
    THEN Vec([c \in 1..gr.num_cells |->
             delete_dims(rotate(d.perm[c], map_grid(gr).R), map_grid(gr).dim)])
    ELSE d.perm

\* K[0:dim, 0:dim]
SubBlock(K, dim) == Mat([i \in 1..dim |-> [j \in 1..dim |-> K[i][j]]])

\* the triplets (I, J, dataIJ) written by the cell loop, lines 167-192
mass_triplets(gr, d) ==
    LET fcs == find(gr.cell_faces)
        index == argsort(fcs.cols)
        faces == Take(fcs.rows, index)
        sign == Take(fcs.vals, index)
        mg == map_grid(gr)
        k == local_perm(gr, d)
        nodes == find(gr.face_nodes).rows
        HB == HBmatrix(gr.dim)
        ip == indptr(gr.cell_faces)
        cell(c) ==
            LET faces_loc == Slice(faces, ip[c], ip[c + 1])
                node == opposite_side_node(gr.face_nodes, nodes, faces_loc)
                coord_loc == Columns(mg.node_coords, node)
                A == massHdiv(Scale(d.aperture[c], SubBlock(k[c], gr.dim)),
                              gr.cell_volumes[c], coord_loc,
                              Slice(sign, ip[c], ip[c + 1]), gr.dim, HB)
                n == Len(faces_loc)
            IN  Vec([t \in 1..(n * n) |->
                    <<faces_loc[((t - 1) \div n) + 1], faces_loc[((t - 1) % n) + 1],
                      A[((t - 1) \div n) + 1][((t - 1) % n) + 1]>>])
    IN  Flatten(Vec([c \in 1..gr.num_cells |-> cell(c)]))

\* sps.coo_matrix((dataIJ, (I, J))): entries with the same (I, J) are summed
coo_matrix(trip) ==
    LET nr == CHOOSE m \in {t[1] : t \in Range(trip)} : \A t \in Range(trip) : t[1] <= m
        nc == CHOOSE m \in {t[2] : t \in Range(trip)} : \A t \in Range(trip) : t[2] <= m
    IN  Mat([i \in 1..nr |-> [j \in 1..nc |->
            LET at == SelectSeq(trip, LAMBDA t : t[1] = i /\ t[2] = j)
            IN  RSum([k \in 1..Len(at) |-> at[k][3]])]])

\* mutant: the sign of the divergence is dropped
div_matrix_unsigned(gr) ==
    Mat([c \in 1..gr.num_cells |-> [f \in 1..gr.num_faces |-> Z(gr.cell_faces[f][c])]])

\* div = -g.cell_faces.T
div_matrix(gr) ==
    Mat([c \in 1..gr.num_cells |-> [f \in 1..gr.num_faces |-> Z(-gr.cell_faces[f][c])]])

\* sps.bmat([[mass, div.T], [div, None]])
saddle(mass, div) ==
    LET F == NRows(mass)
        C == NRows(div)
    IN  Mat([i \in 1..(F + C) |-> [j \in 1..(F + C) |->
            IF i <= F /\ j <= F THEN mass[i][j]
            ELSE IF i <= F THEN div[j - F][i]
            ELSE IF j <= F THEN div[i - F][j]
            ELSE R0]])

\* mutant: internal faces keep their stored flag
not_internal_ignored(flag, bc) == Vec(flag)

\* lines 207, 222, 273-275: a condition restricted to the faces that are not internal
not_internal(flag, bc) == Vec([f \in DOMAIN flag |-> flag[f] /\ ~bc.is_internal[f]])

\* mutant: the cleared rows get a unit diagonal instead of norm
apply_neumann_unit(M, bc, norm) ==
    LET is_neu == not_internal(bc.is_neu, bc)
    IN  Mat([i \in 1..NRows(M) |-> [j \in 1..NCols(M) |->
            IF i <= Len(is_neu) /\ is_neu[i] THEN (IF i = j THEN R1 ELSE R0) ELSE M[i][j]]])

\* lines 206-219: clear the rows of the Neumann faces and put norm on their diagonal
apply_neumann(M, bc, norm) ==
    LET is_neu == not_internal(bc.is_neu, bc)
        rows == Range(where(is_neu))
    IN  IF \E f \in DOMAIN is_neu : is_neu[f]
        THEN Mat([i \in 1..NRows(M) |-> [j \in 1..NCols(M) |->
                 IF i \in rows THEN (IF i = j THEN norm ELSE R0) ELSE M[i][j]]])
        ELSE M

\* mutant: the Robin term is added on internal faces too
apply_robin_all(M, bc, gr) ==
    Mat([i \in 1..NRows(M) |-> [j \in 1..NCols(M) |->
        IF i = j /\ i <= Len(bc.is_rob) /\ bc.is_rob[i]
        THEN RAdd(M[i][j], RDiv(R1, RMul(bc.robin_weight[i], gr.face_areas[i])))
        ELSE M[i][j]]])

\* lines 221-229: add 1/(robin_weight*face_area) on the diagonal of the Robin faces
apply_robin(M, bc, gr) ==
    LET is_rob == not_internal(bc.is_rob, bc)
        rob == Range(where(is_rob))
        dat == Vec([i \in 1..ndof(gr).val |->
                   IF i \in rob THEN RDiv(R1, RMul(bc.robin_weight[i], gr.face_areas[i]))
                   ELSE R0])
    IN  IF \E f \in DOMAIN is_rob : is_rob[f] THEN MatAdd(M, Diagflat(dat)) ELSE M

matrix(gr, d, bc_weight) ==
    IF gr.dim = 0
    THEN LET n == ndof(gr).val
             M == Mat([i \in 1..n |-> [j \in 1..n |-> IF i = j /\ i = 1 THEN R1 ELSE R0]])
         IN  [exc |-> "", val |-> IF bc_weight THEN <<M, R1>> ELSE <<M>>]
    ELSE IF ~d.bc.present
    THEN [exc |-> "AttributeError", val |-> <<>>]
    ELSE LET mass == coo_matrix(mass_triplets(gr, d))
             M0 == saddle(mass, div_matrix(gr))
             norm == IF bc_weight THEN NormInf(mass) ELSE R1
             M == apply_robin(apply_neumann(M0, d.bc, norm), d.bc, gr)
         IN  [exc |-> "", val |-> IF bc_weight THEN <<M, norm>> ELSE <<M>>]

(***************************************************************************)
(* RT0.rhs and RT0.matrix_rhs                                              *)
(***************************************************************************)
\* mutant: the sign of every face at its last occurrence in find(cell_faces)
face_sign_last(gr) ==
    LET fcs == find(gr.cell_faces)
    IN  Vec([f \in 1..gr.num_faces |->
            fcs.vals[CHOOSE i \in DOMAIN fcs.rows :
                fcs.rows[i] = f /\ \A j \in DOMAIN fcs.rows : fcs.rows[j] = f => j <= i]])

\* line 278: the sign of every face at its first occurrence in find(cell_faces)
face_sign(gr) ==
    LET fcs == find(gr.cell_faces)
    IN  Take(fcs.vals, unique_index(fcs.rows))

\* lines 280-282: rhs[is_dir] += -sign[is_dir] * bc_val[is_dir]
add_dirichlet(v, is_dir, sign, bc_val) ==
    LET idx == Range(where(is_dir))
    IN  Vec([i \in 1..Len(v) |->
            IF i \in idx THEN RAdd(v[i], RMul(Z(-sign[i]), bc_val[i])) ELSE v[i]])

\* lines 284-286: rhs[is_rob] += -sign[is_rob] * bc_val[is_rob] / robin_weight[is_rob]
add_robin(v, is_rob, sign, bc_val, robin_weight) ==
    LET idx == Range(where(is_rob))
    IN  Vec([i \in 1..Len(v) |->
            IF i \in idx
            THEN RAdd(v[i], RDiv(RMul(Z(-sign[i]), bc_val[i]), robin_weight[i])) ELSE v[i]])

\* lines 288-290: rhs[is_neu] = sign[is_neu] * bc_weight * bc_val[is_neu]
set_neumann(v, is_neu, sign, bc_weight, bc_val) ==
    LET idx == Range(where(is_neu))
    IN  Vec([i \in 1..Len(v) |->
            IF i \in idx THEN RMul(RMul(Z(sign[i]), bc_weight), bc_val[i]) ELSE v[i]])

\* mutant: only a descriptor without values is rejected
bc_consistent_oneway(d) == d.bc.present => d.bc_val.present

\* line 261: assert not bool(bc is None) != bool(bc_val is None)
bc_consistent(d) == (~d.bc.present) = (~d.bc_val.present)

rhs(gr, d, bc_weight) ==
    LET f == d.source
    IN  IF gr.dim = 0 THEN [exc |-> "", val |-> <<R0>> \o f]
        ELSE IF ~bc_consistent(d)
        THEN [exc |-> "AssertionError", val |-> <<>>]
        ELSE IF ~d.bc.present THEN [exc |-> "", val |-> ZeroVec(ndof(gr).val)]
        ELSE LET bc == d.bc
                 bc_val == d.bc_val.val
                 is_neu == not_internal(bc.is_neu, bc)
                 is_dir == not_internal(bc.is_dir, bc)
                 is_rob == not_internal(bc.is_rob, bc)
                 sign == face_sign(gr)
                 v0 == ZeroVec(ndof(gr).val)
                 v1 == add_dirichlet(v0, is_dir, sign, bc_val)
                 v2 == add_robin(v1, is_rob, sign, bc_val, bc.robin_weight)
                 v3 == set_neumann(v2, is_neu, sign, bc_weight, bc_val)
             IN  [exc |-> "", val |-> v3]

\* line 96: return M, self.rhs(g, data, bc_weight), for Mw = (M, bc_weight) of line 95
matrix_rhs_return(Mw, b) ==
    IF b.exc # "" THEN b ELSE [exc |-> "", val |-> <<Mw.val[1], b.val>>]

matrix_rhs_with(Mw, gr, d) ==
    IF Mw.exc # "" THEN Mw ELSE matrix_rhs_return(Mw, rhs(gr, d, Mw.val[2]))

matrix_rhs(gr, d) == matrix_rhs_with(matrix(gr, d, TRUE), gr, d)

(***************************************************************************)
(* RT0.extract_u, RT0.extract_p, RT0.project_u                             *)
(***************************************************************************)
Min(a, b) == IF a <= b THEN a ELSE b

\* up[: g.num_faces]
extract_u(gr, up) == SubSeq(up, 1, Min(gr.num_faces, Len(up)))

\* mutant: the pressures are taken to start after num_cells entries
extract_p_cells(gr, up) == SubSeq(up, gr.num_cells + 1, Len(up))

\* up[g.num_faces :]
extract_p(gr, up) == SubSeq(up, gr.num_faces + 1, Len(up))

\* mutant: P0u[:, c] = loc, the local velocity is written to every row
scatter_all(loc, mask) ==
    LET act == where(mask)
    IN  Vec([r \in 1..3 |->
            IF r \in Range(act) THEN loc[CHOOSE k \in DOMAIN act : act[k] = r] ELSE loc[1]])

\* line 385, P0u[dim, c] = loc: the active rows of the zero column are written
scatter_active(loc, mask) ==
    LET act == where(mask)
    IN  Vec([r \in 1..3 |->
            IF r \in Range(act) THEN loc[CHOOSE k \in DOMAIN act : act[k] = r] ELSE R0])

\* column c of P0u after the loop body of lines 370-386
project_cell(gr, u, d, c) ==
    LET fcs == find(gr.cell_faces)
        index == argsort(fcs.cols)
        faces == Take(fcs.rows, index)
        mg == map_grid(gr)
        nodes == find(gr.face_nodes).rows
        ip == indptr(gr.cell_faces)
        faces_loc == Slice(faces, ip[c], ip[c + 1])
        node == opposite_side_node(gr.face_nodes, nodes, faces_loc)
        n == Len(node)
        nc == Columns(mg.node_coords, node)
        fc == Columns(mg.f_centers, faces_loc)
        normals == Columns(mg.f_normals, faces_loc)
        delta_c == Mat([i \in 1..gr.dim |-> [j \in 1..n |-> RSub(mg.c_centers[i][c], nc[i][j])]])
        delta_f == Mat([i \in 1..gr.dim |-> [j \in 1..n |-> RSub(fc[i][j], nc[i][j])]])
        den == Vec([j \in 1..n |-> RSum([i \in 1..gr.dim |-> RMul(delta_f[i][j], normals[i][j])])])
        Pi == Mat([i \in 1..gr.dim |-> [j \in 1..n |-> RDiv(delta_c[i][j], den[j])]])
        Piu == MatVec(Pi, Take(u, faces_loc))
        loc == Vec([i \in 1..gr.dim |-> RMul(Piu[i], d.aperture[c])])
    IN  MatVec(Transpose(mg.R), scatter_active(loc, mg.dim))

project_u(gr, u, d) ==
    IF gr.dim = 0 THEN Zeros(3, 1)
    ELSE LET cols == Vec([c \in 1..gr.num_cells |-> project_cell(gr, u, d, c)])
         IN  Mat([r \in 1..3 |-> [c \in 1..gr.num_cells |-> cols[c][r]]])

(***************************************************************************)
(* Inputs                                                                  *)
(***************************************************************************)
Tags == {"none", "dir", "neu", "rob"}

\* a boundary condition descriptor: at most one of is_dir / is_neu / is_rob per
\* face (the face's tag), is_internal independent of the tag
BoundaryCondition(tag, internal) ==
    [present |-> TRUE,
     is_dir |-> Vec([f \in DOMAIN tag |-> tag[f] = "dir"]),
     is_neu |-> Vec([f \in DOMAIN tag |-> tag[f] = "neu"]),
     is_rob |-> Vec([f \in DOMAIN tag |-> tag[f] = "rob"]),
     is_internal |-> Vec(internal),
     robin_weight |-> Vec([f \in DOMAIN tag |-> Z(f + 1)])]

\* param.get_bc / get_bc_val returning None
NoBC ==
    [present |-> FALSE, is_dir |-> <<>>, is_neu |-> <<>>, is_rob |-> <<>>,
     is_internal |-> <<>>, robin_weight |-> <<>>]
NoBCVal == [present |-> FALSE, val |-> <<>>]

\* every face is untagged, or carries one tag and is internal or not
FaceKinds == {<<"none", FALSE>>} \cup ((Tags \ {"none"}) \X BOOLEAN)
BCs(F) ==
    {BoundaryCondition([f \in 1..F |-> k[f][1]], [f \in 1..F |-> k[f][2]]) :
        k \in [1..F -> FaceKinds]}

\* boundary values: two patterns, all non-zero, distinct on every face
BCVals(F) ==
    {[present |-> TRUE, val |-> Vec([f \in 1..F |-> Z(f + 1)])],
     [present |-> TRUE, val |-> Vec([f \in 1..F |-> Rat(-(2 * f + 1), 2)])]}

Diag3(a, b, c) == <<<<Z(a), R0, R0>>, <<R0, Z(b), R0>>, <<R0, R0, Z(c)>>>>

\* permeability, aperture and the is_tangential flag
Media(C) ==
    {[perm |-> Vec([c \in 1..C |-> Eye3]), aperture |-> Vec([c \in 1..C |-> R1]),
      is_tangential |-> FALSE],
     [perm |-> Vec([c \in 1..C |-> Diag3(c, 2, 4)]), aperture |-> Vec([c \in 1..C |-> Z(c + 1)]),
      is_tangential |-> FALSE],
     [perm |-> Vec([c \in 1..C |-> Diag3(c, 2, 4)]), aperture |-> Vec([c \in 1..C |-> Z(c + 1)]),
      is_tangential |-> TRUE]}

Sources(C) == {Vec([c \in 1..C |-> R0]), Vec([c \in 1..C |-> Z(c)])}

Data(bc, bc_val, medium, source) ==
    [bc |-> bc, bc_val |-> bc_val, perm |-> medium.perm, aperture |-> medium.aperture,
     is_tangential |-> medium.is_tangential, source |-> source]

Rotations == {Eye3, RotX, RotY, RotZ}
FirstDims(d) == Vec([i \in 1..3 |-> i <= d])
LastDims(d) == Vec([i \in 1..3 |-> i > 3 - d])

\* the grids of dimension >= 1 with rotation in `rots` and active-dimension
\* mask in `masks1` (dimension 1) or `masks2` (dimension 2)
GridsIn(rots, masks1, masks2) ==
    {LineGrid(n, r, Vec(m)) : n \in 1..MaxCells, r \in rots, m \in masks1}
    \cup {TriGrid(r, Vec(m)) : r \in rots, m \in masks2}

AxisGrids == GridsIn({Eye3}, {FirstDims(1)}, {FirstDims(2)})
TwoFrameGrids == AxisGrids \cup GridsIn({RotX}, {LastDims(1)}, {LastDims(2)})
AllGrids == GridsIn(Rotations, Masks(1), Masks(2))

Vectors(n, vals) == {Vec(v) : v \in [1..n -> vals]}
Values == {Z(-1), Z(2)}
Weights == {R1, Rat(3, 2)}

NoCall == [op |-> "none", arg |-> <<>>]
NoRet == [exc |-> "", val |-> <<>>]

(***************************************************************************)
(* State machine: one action per method of RT0                             *)
(***************************************************************************)
Idle == call.op = "none"

Ndof ==
    /\ Idle
    /\ call' = [op |-> "ndof", arg |-> <<>>]
    /\ ret' = ndof(g)
    /\ UNCHANGED <<g, data>>

Matrix(bc_weight) ==
    /\ Idle /\ g.kind = "Grid"
    /\ call' = [op |-> "matrix", arg |-> bc_weight]
    /\ ret' = matrix(g, data, bc_weight)
    /\ UNCHANGED <<g, data>>

Rhs(bc_weight) ==
    /\ Idle /\ g.kind = "Grid"
    /\ call' = [op |-> "rhs", arg |-> bc_weight]
    /\ ret' = rhs(g, data, bc_weight)
    /\ UNCHANGED <<g, data>>

MatrixRhs ==
    /\ Idle /\ g.kind = "Grid"
    /\ call' = [op |-> "matrix_rhs", arg |-> <<>>]
    /\ ret' = matrix_rhs(g, data)
    /\ UNCHANGED <<g, data>>

ExtractU(up) ==
    /\ Idle /\ g.kind = "Grid"
    /\ call' = [op |-> "extract_u", arg |-> up]
    /\ ret' = [exc |-> "", val |-> extract_u(g, up)]
    /\ UNCHANGED <<g, data>>

ExtractP(up) ==
    /\ Idle /\ g.kind = "Grid"
    /\ call' = [op |-> "extract_p", arg |-> up]
    /\ ret' = [exc |-> "", val |-> extract_p(g, up)]
    /\ UNCHANGED <<g, data>>

ProjectU(u) ==
    /\ Idle /\ g.kind = "Grid"
    /\ call' = [op |-> "project_u", arg |-> u]
    /\ ret' = [exc |-> "", val |-> project_u(g, u, data)]
    /\ UNCHANGED <<g, data>>

\* the caller takes the result; the discretizer keeps no state between calls
Return ==
    /\ ~Idle
    /\ call' = NoCall
    /\ ret' = NoRet
    /\ UNCHANGED <<g, data>>

\* Matrix assembly: every descriptor on every grid; isotropic and tangential
\* permeability in the axis frame, anisotropic permeability in a rotated frame
InitMatrix ==
    /\ g \in TwoFrameGrids \cup {PointGrid}
    /\ \E bc \in BCs(g.num_faces) \cup {NoBC},
          m \in {x \in Media(g.num_cells) :
                   (g.R = Eye3) # (x.perm[1] # Eye3 /\ ~x.is_tangential)} :
          data = Data(bc, NoBCVal, m, Vec([c \in 1..g.num_cells |-> R0]))
    /\ call = NoCall
    /\ ret = NoRet

NextMatrix == (\E bw \in BOOLEAN : Matrix(bw)) \/ Return

SpecMatrix == InitMatrix /\ [][NextMatrix]_vars

\* Right-hand side: every descriptor, present or absent, with present or absent values
InitRhs ==
    /\ g \in AxisGrids \cup {PointGrid}
    /\ \E bc \in BCs(g.num_faces) \cup {NoBC},
          bv \in BCVals(g.num_faces) \cup {NoBCVal},
          m \in {x \in Media(g.num_cells) : ~x.is_tangential /\ x.aperture[1] = R1} :
          \E src \in {x \in Sources(g.num_cells) : bv.present => (x[1] = R0) = (bv.val[1] = Z(2))} :
              data = Data(bc, bv, m, src)
    /\ call = NoCall
    /\ ret = NoRet

NextRhs == (\E w \in Weights : Rhs(w)) \/ MatrixRhs \/ Return

SpecRhs == InitRhs /\ [][NextRhs]_vars

\* Degrees of freedom, extraction and projection: grids in every frame, other entities
InitPost ==
    /\ g \in AllGrids \cup {PointGrid, OtherEntity} \cup {MortarGrid(n) : n \in 1..MaxCells}
    /\ \E m \in {x \in Media(g.num_cells) : ~x.is_tangential} :
          data = Data(NoBC, NoBCVal, m, Vec([c \in 1..g.num_cells |-> R0]))
    /\ call = NoCall
    /\ ret = NoRet

NextPost ==
    \/ Ndof
    \/ \E up \in Vectors(g.num_faces + g.num_cells, Values) : ExtractU(up)
    \/ \E up \in Vectors(g.num_faces + g.num_cells, Values) : ExtractP(up)
    \/ \E u \in Vectors(g.num_faces, Values) : ProjectU(u)
    \/ Return

SpecPost == InitPost /\ [][NextPost]_vars

(***************************************************************************)
(* Properties                                                              *)
(***************************************************************************)
NumF == g.num_faces
NumC == g.num_cells

\* the last call was `op` and it returned normally
Called(op) == call.op = op /\ ret.exc = ""

\* the mass block assembled from g and data, before boundary conditions
MassBlock == coo_matrix(mass_triplets(g, data))

RowAbsSum(A, i) == RSum([j \in 1..NCols(A) |-> RAbs(A[i][j])])

\* w is the largest absolute row sum of A
IsInfNorm(w, A) ==
    /\ \A i \in 1..NRows(A) : RLeq(RowAbsSum(A, i), w)
    /\ \E i \in 1..NRows(A) : RowAbsSum(A, i) = w

NeumannFace(f) == data.bc.is_neu[f] /\ ~data.bc.is_internal[f]
RobinFace(f) == data.bc.is_rob[f] /\ ~data.bc.is_internal[f]
DirichletFace(f) == data.bc.is_dir[f] /\ ~data.bc.is_internal[f]

\* the orientation of face f in the lowest-indexed cell adjacent to it
LowestCellSign(f) ==
    LET c == CHOOSE x \in 1..NumC :
                 g.cell_faces[f][x] # 0 /\ \A y \in 1..NumC : g.cell_faces[f][y] # 0 => x <= y
    IN  g.cell_faces[f][c]

AdjacentCells(f) == {c \in 1..NumC : g.cell_faces[f][c] # 0}

\* C1: in the matrix returned by RT0.matrix on a mesh of dimension >= 1, the row
\* of every face that is Neumann and not internal is zero in all flux and
\* pressure columns except its diagonal entry, which equals the weight: the
\* infinity norm of the mass block when bc_weight is requested (and then the
\* value returned with the matrix), 1 otherwise.
C1_NeumannRows ==
    (Called("matrix") /\ g.dim >= 1) =>
        LET M == ret.val[1]
            w == IF call.arg THEN ret.val[2] ELSE R1
        IN  /\ Len(ret.val) = (IF call.arg THEN 2 ELSE 1)
            /\ call.arg => IsInfNorm(ret.val[2], MassBlock)
            /\ \A f \in 1..NumF : NeumannFace(f) =>
                  \A j \in 1..(NumF + NumC) : M[f][j] = (IF j = f THEN w ELSE R0)

\* a matrix with requested weight, a weight other than 1 and a Neumann face whose
\* unmodified row had non-zero off-diagonal entries
C1_Witness ==
    /\ Called("matrix") /\ g.dim >= 1 /\ call.arg
    /\ ret.val[2] # R1
    /\ \E f \in 1..NumF : NeumannFace(f) /\ ret.val[1][f][f] = ret.val[2]
    /\ \E f \in 1..NumF : RobinFace(f)

\* C2: the row of every internal face, whatever its own flags and those of the
\* other faces, is the row of the unmodified saddle-point matrix
\* [[mass, div^T], [div, 0]].
C2_InternalRows ==
    (Called("matrix") /\ g.dim >= 1) =>
        LET unmodified == saddle(MassBlock, div_matrix(g))
        IN  \A f \in 1..NumF : data.bc.is_internal[f] =>
                ret.val[1][f] = unmodified[f]

\* internal faces flagged Neumann and Robin next to a face whose row was changed
C2_Witness ==
    /\ Called("matrix") /\ g.dim >= 1
    /\ \E f \in 1..NumF : data.bc.is_internal[f] /\ data.bc.is_neu[f]
    /\ \E f \in 1..NumF : data.bc.is_internal[f] /\ data.bc.is_rob[f]
    /\ \E f \in 1..NumF : NeumannFace(f) \/ RobinFace(f)

\* C3: with descriptor and values present on a mesh of dimension >= 1, rhs has
\* length num_faces + num_cells; a non-internal Dirichlet face holds
\* -sign*bc_val, a non-internal Robin face -sign*bc_val/robin_weight, a
\* non-internal Neumann face sign*w*bc_val, every other face 0, with sign the
\* orientation of the face in its lowest-indexed adjacent cell.
C3_BoundaryRhs ==
    (Called("rhs") /\ g.dim >= 1 /\ data.bc.present /\ data.bc_val.present) =>
        /\ Len(ret.val) = NumF + NumC
        /\ \A f \in 1..NumF :
              LET sg == Z(LowestCellSign(f))
                  bv == data.bc_val.val[f]
              IN  ret.val[f] =
                     (IF DirichletFace(f) THEN RNeg(RMul(sg, bv))
                      ELSE IF RobinFace(f)
                           THEN RNeg(RDiv(RMul(sg, bv), data.bc.robin_weight[f]))
                      ELSE IF NeumannFace(f) THEN RMul(sg, RMul(call.arg, bv))
                      ELSE R0)

\* a Dirichlet face shared by two cells of opposite orientation, with a Neumann
\* and a Robin face beside it and a weight other than 1
C3_Witness ==
    /\ Called("rhs") /\ g.dim >= 1 /\ data.bc.present /\ data.bc_val.present
    /\ call.arg # R1
    /\ \E f \in 1..NumF : DirichletFace(f) /\ Cardinality(AdjacentCells(f)) = 2
                          /\ ret.val[f] # R0
    /\ \E f \in 1..NumF : NeumannFace(f)
    /\ \E f \in 1..NumF : RobinFace(f)

\* C4: the right-hand side returned by rhs and matrix_rhs carries the source
\* term: entry num_faces + c is the source value of cell c, in every dimension.
C4_SourceInRhs ==
    /\ Called("rhs") => \A c \in 1..NumC : ret.val[NumF + c] = data.source[c]
    /\ Called("matrix_rhs") => \A c \in 1..NumC : ret.val[2][NumF + c] = data.source[c]

\* C5 as claimed: after the boundary conditions the divergence blocks are
\* transposes of each other, the lower one is -cell_faces^T, the cell block is 0.
C5_DivergenceTranspose ==
    (Called("matrix") /\ g.dim >= 1) =>
        LET M == ret.val[1]
        IN  /\ \A f \in 1..NumF, c \in 1..NumC :
                  /\ M[f][NumF + c] = M[NumF + c][f]
                  /\ M[NumF + c][f] = Z(-g.cell_faces[f][c])
            /\ \A c \in 1..NumC, e \in 1..NumC : M[NumF + c][NumF + e] = R0

\* C5 amended: the lower divergence block is -cell_faces^T and the cell block is
\* 0; the upper divergence block is the transpose of the lower one in every row
\* but those of the non-internal Neumann faces, which are zero.
C5_DivergenceBlocks ==
    (Called("matrix") /\ g.dim >= 1) =>
        LET M == ret.val[1]
        IN  /\ \A f \in 1..NumF, c \in 1..NumC :
                  /\ M[NumF + c][f] = Z(-g.cell_faces[f][c])
                  /\ M[f][NumF + c] = (IF NeumannFace(f) THEN R0 ELSE M[NumF + c][f])
            /\ \A c \in 1..NumC, e \in 1..NumC : M[NumF + c][NumF + e] = R0

\* a matrix with a cleared Neumann row and a row that kept its divergence entries
C5_Witness ==
    /\ Called("matrix") /\ g.dim >= 1
    /\ \E f \in 1..NumF : NeumannFace(f)
    /\ \E f \in 1..NumF, c \in 1..NumC : ~NeumannFace(f) /\ ret.val[1][f][NumF + c] # R0

\* C6 as claimed: every internal face, whatever its flag, holds -sign*bc_val.
C6_InternalDirichletValue ==
    (Called("rhs") /\ g.dim >= 1 /\ data.bc.present /\ data.bc_val.present) =>
        \A f \in 1..NumF : data.bc.is_internal[f] =>
            ret.val[f] = RNeg(RMul(Z(LowestCellSign(f)), data.bc_val.val[f]))

\* C6 amended: every internal face, whatever its flag, holds 0 (it is excluded
\* from the Dirichlet, Robin and Neumann contributions alike).
C6_InternalZero ==
    (Called("rhs") /\ g.dim >= 1 /\ data.bc.present /\ data.bc_val.present) =>
        \A f \in 1..NumF : data.bc.is_internal[f] => ret.val[f] = R0

\* internal faces flagged Dirichlet, Neumann and Robin, all with non-zero values
C6_Witness ==
    /\ Called("rhs") /\ g.dim >= 1 /\ data.bc.present /\ data.bc_val.present
    /\ \A t \in {"dir", "neu", "rob"} : \E f \in 1..NumF :
          /\ data.bc.is_internal[f] /\ data.bc_val.val[f] # R0
          /\ (t = "dir" => data.bc.is_dir[f])
          /\ (t = "neu" => data.bc.is_neu[f])
          /\ (t = "rob" => data.bc.is_rob[f])

\* C7: extract_u returns the first num_faces entries of up and extract_p the
\* remaining num_cells entries, in order, so the two results partition up.
C7_ExtractPartition ==
    /\ Called("extract_u") =>
          /\ Len(ret.val) = NumF
          /\ \A i \in 1..NumF : ret.val[i] = call.arg[i]
    /\ Called("extract_p") =>
          /\ Len(ret.val) = NumC
          /\ \A i \in 1..NumC : ret.val[i] = call.arg[NumF + i]

\* pressures extracted from a vector whose last flux differs from its first pressure
C7_Witness ==
    /\ Called("extract_p") /\ NumC >= 2 /\ NumF # NumC
    /\ Len(call.arg) = NumF + NumC
    /\ call.arg[NumF] # call.arg[NumF + 1]
    /\ ret.val[1] # ret.val[2]

\* C8: ndof returns num_cells + num_faces for a grid, num_cells for a mortar
\* grid, and raises without a result for any other entity.
C8_Ndof ==
    (call.op = "ndof") =>
        /\ g.kind = "Grid" => ret.exc = "" /\ ret.val = NumC + NumF
        /\ g.kind = "MortarGrid" => ret.exc = "" /\ ret.val = NumC
        /\ g.kind \notin {"Grid", "MortarGrid"} => ret.exc = "ValueError" /\ ret.val = <<>>

\* ndof of an entity that is neither a grid nor a mortar grid
C8_Witness == call.op = "ndof" /\ g.kind = "Other" /\ ret.exc # ""

C10_TrailingRowsZero ==
    (Called("project_u") /\ g.dim < 3) =>
        /\ Len(ret.val) = 3
        /\ \A r \in (g.dim + 1)..3, c \in 1..NumC : ret.val[r][c] = R0

\* C10 amended: the result is 3 x num_cells (the zero 3-vector for d = 0); when
\* the rotation R of the geometry mapper is the identity, every row of an
\* inactive dimension is zero: rows d..2 when the first d dimensions are active.
C10_InactiveRowsZero ==
    (Called("project_u") /\ g.dim < 3) =>
        /\ Len(ret.val) = 3
        /\ \A r \in 1..3 : Len(ret.val[r]) = NumC
        /\ g.dim = 0 => \A r \in 1..3 : ret.val[r][1] = R0
        /\ g.R = Eye3 => \A r \in 1..3, c \in 1..NumC : ~g.dimmask[r] => ret.val[r][c] = R0

\* a non-zero velocity projected on a mesh lying along the first d axes
C10_Witness ==
    /\ Called("project_u") /\ g.dim \in 1..2
    /\ g.R = Eye3 /\ g.dimmask = FirstDims(g.dim)
    /\ \E c \in 1..NumC : ret.val[1][c] # R0
    /\ \A r \in (g.dim + 1)..3, c \in 1..NumC : ret.val[r][c] = R0

====
